---- MODULE Spec2Model ----
(***************************************************************************)
(* LightAccessory (src/accessories/light-accessory.ts): the get/set        *)
(* handlers of the Lightbulb service, the pending hue/saturation state     *)
(* that coalesces two host writes into one device color write, and the     *)
(* color conversions the handlers use.                                     *)
(*                                                                         *)
(* Every handler is an async function: it runs without interruption up to  *)
(* an await, is suspended there, and is resumed by a later step.  Each     *)
(* request the host issues is a task; a task records the observable        *)
(* events it produced (device reads and writes, setNotResponding, the      *)
(* host callback, the value returned or the error thrown), in order.       *)
(***************************************************************************)
EXTENDS Integers, Sequences, FiniteSets, TLC

(***************************************************************************)
(* JavaScript values.  Each is a tagged record, so that values of          *)
(* different types compare unequal.  A string is the sequence of its       *)
(* characters.                                                             *)
(***************************************************************************)
Undefined == [t |-> "undefined"]
Null == [t |-> "null"]
Num(n) == [t |-> "number", n |-> n]
Bool(b) == [t |-> "boolean", b |-> b]
Str(s) == [t |-> "string", s |-> s]
Err(m) == [t |-> "Error", message |-> m]

\* utils.isNullOrUndefined
isNullOrUndefined(v) == v.t \in {"null", "undefined"}

\* !value, for the values getValueAsString can produce
Falsy(v) ==
    \/ v.t \in {"null", "undefined"}
    \/ v.t = "string" /\ v.s = <<>>
    \/ v.t = "number" /\ v.n = 0
    \/ v.t = "boolean" /\ ~v.b

\* error instanceof Error ? error : new Error('Unknown error')
AsError(e) == IF e.t = "Error" THEN e ELSE Err("Unknown error")

ValueNotAvailable == Err("Value not available")

(***************************************************************************)
(* color-convert, as called at lines 69, 87 and 182.  The library computes *)
(* in floating point; here a fraction is a numerator and a denominator,    *)
(* and Math.round is applied to the exact quotient.                        *)
(***************************************************************************)
\* Math.round(n / d) for n >= 0, d > 0
Round(n, d) == (2 * n + d) \div (2 * d)

Max2(a, b) == IF a >= b THEN a ELSE b
Min2(a, b) == IF a <= b THEN a ELSE b

UpperDigits == <<"0", "1", "2", "3", "4", "5", "6", "7", "8", "9", "A", "B", "C", "D", "E", "F">>
LowerDigits == <<"0", "1", "2", "3", "4", "5", "6", "7", "8", "9", "a", "b", "c", "d", "e", "f">>

\* [a-f0-9] with the i flag
IsHexDigit(c) == \E k \in 1..16 : c = UpperDigits[k] \/ c = LowerDigits[k]
HexDigitValue(c) == (CHOOSE k \in 1..16 : c = UpperDigits[k] \/ c = LowerDigits[k]) - 1

\* s has n hex digits from position i on
HexRun(s, i, n) == i + n - 1 <= Len(s) /\ \A k \in i..(i + n - 1) : IsHexDigit(s[k])

\* String.match(/[a-f0-9]{6}|[a-f0-9]{3}/i): the leftmost match, six digits
\* preferred to three at the same position; <<>> when there is none
RECURSIVE MatchHex(_, _)
MatchHex(s, i) ==
    IF i > Len(s) THEN <<>>
    ELSE IF HexRun(s, i, 6) THEN SubSeq(s, i, i + 5)
    ELSE IF HexRun(s, i, 3) THEN SubSeq(s, i, i + 2)
    ELSE MatchHex(s, i + 1)

\* parseInt(s, 16)
RECURSIVE ParseHex(_)
ParseHex(s) ==
    IF s = <<>> THEN 0
    ELSE 16 * ParseHex(SubSeq(s, 1, Len(s) - 1)) + HexDigitValue(s[Len(s)])

\* convert.hex.rgb
HexRgb(s) ==
    LET match == MatchHex(s, 1)
        colorString == IF Len(match) = 3
                       THEN <<match[1], match[1], match[2], match[2], match[3], match[3]>>
                       ELSE match
        integer == ParseHex(colorString)
    IN  IF match = <<>> THEN <<0, 0, 0>>
        ELSE <<(integer \div 65536) % 256, (integer \div 256) % 256, integer % 256>>

\* convert.rgb.hsl followed by the rounding of the routed conversion; the
\* result is <<h, s, l>>
RgbHsl(rgb) ==
    LET r == rgb[1]
        g == rgb[2]
        b == rgb[3]
        min == Min2(r, Min2(g, b))
        max == Max2(r, Max2(g, b))
        delta == max - min
        \* 60 * h as the fraction hn / delta
        hn == IF max = min THEN 0
              ELSE IF r = max THEN 60 * (g - b)
              ELSE IF g = max THEN 60 * (2 * delta + (b - r))
              ELSE 60 * (4 * delta + (r - g))
        hd == IF max = min THEN 1 ELSE delta
        hpos == IF hn < 0 THEN hn + 360 * hd ELSE hn
        h == Min2(Round(hpos, hd), 360)
        s == IF max = min THEN 0
             ELSE IF min + max <= 255 THEN Round(100 * delta, max + min)
             ELSE Round(100 * delta, 510 - max - min)
        l == Round(100 * (min + max), 510)
    IN  <<h, s, l>>

\* convert.hex.hsl
HexHsl(s) == RgbHsl(HexRgb(s))

\* a conversion that takes every hue for one of the first sector
HsvRgbOneSector(h, s, v) ==
    <<Round(255 * v, 100),
      Round(255 * v * (6000 - s * (60 - (h % 60))), 600000),
      Round(255 * v * (100 - s), 10000)>>

\* convert.hsv.rgb for integer h, s, v, each channel rounded as rgb.hex
\* rounds it
HsvRgb(h, s, v) ==
    LET hi == (h \div 60) % 6
        fn == h % 60
        p == Round(255 * v * (100 - s), 10000)
        q == Round(255 * v * (6000 - s * fn), 600000)
        t == Round(255 * v * (6000 - s * (60 - fn)), 600000)
        vv == Round(255 * v, 100)
    IN  CASE hi = 0 -> <<vv, t, p>>
          [] hi = 1 -> <<q, vv, p>>
          [] hi = 2 -> <<p, vv, t>>
          [] hi = 3 -> <<p, q, vv>>
          [] hi = 4 -> <<t, p, vv>>
          [] hi = 5 -> <<vv, p, q>>

\* convert.rgb.hex: six upper-case digits
RgbHex(rgb) ==
    LET byte(x) == <<UpperDigits[((x % 256) \div 16) + 1], UpperDigits[(x % 16) + 1]>>
    IN  byte(rgb[1]) \o byte(rgb[2]) \o byte(rgb[3])

\* convert.hsv.hex
HsvHex(h, s, v) == RgbHex(HsvRgb(h, s, v))


\* the value component taken as 50
HexValueDimmed(hue, saturation) == Str(HsvHex(hue.n, saturation.n, 50))

\* hexValue of line 182 for the arguments setRgbColor receives.  For numbers
\* it is convert.hsv.hex([hue, saturation, 100]).  An argument that is not a
\* number makes the arithmetic NaN: a NaN hue selects no case of the
\* library's switch, and formatting the missing result throws; a NaN
\* saturation makes p, q and t NaN, which rgb.hex turns into 0.

HexValue(hue, saturation) ==
    IF hue.t # "number" THEN Err("TypeError")
    ELSE IF saturation.t # "number"
    THEN LET hi == (hue.n \div 60) % 6
         IN  Str(RgbHex(CASE hi = 0 -> <<255, 0, 0>>
                          [] hi = 1 -> <<0, 255, 0>>
                          [] hi = 2 -> <<0, 255, 0>>
                          [] hi = 3 -> <<0, 0, 255>>
                          [] hi = 4 -> <<0, 0, 255>>
                          [] hi = 5 -> <<255, 0, 0>>))
    ELSE Str(HsvHex(hue.n, saturation.n, 100))

(***************************************************************************)
(* Bounds and the inputs the host and the device are given.                *)
(***************************************************************************)
\* requests the host issues in one behaviour: of any kind, of setHue and
\* setSaturation only, of the get handlers only
MaxRequests == 2
MaxColorRequests == 3
MaxGetRequests == 2

Accessories == {"A", "B"}

\* FunctionCharacteristic
Power == "Power"
Brightness == "Brightness"
ColorRgb == "ColorRgb"

\* capability sets an accessory's device may have
Capabilities == {{Power, Brightness, ColorRgb}, {Brightness}}

HueValues == {Num(0), Num(240)}
SaturationValues == {Num(0), Num(80)}
OnValues == {Bool(TRUE)}
BrightnessValues == {Num(50)}

\* errors a device-service call may fail with
DeviceErrors == {Err("timeout"), Err("ECONNRESET")}

\* what the device service resolves a read with
BooleanReads == {Bool(FALSE), Undefined}
IntegerReads == {Num(-1), Num(0), Num(50), Null}
StringReads == {Str(<<"#", "3", "3", "3", "3", "f", "f">>), Str(<<"r", "g", "b">>), Str(<<>>),
                Null, Undefined}

Resolved(v) == [rejected |-> FALSE, v |-> v]
Rejected(e) == [rejected |-> TRUE, v |-> e]

ReadOutcomes(op) ==
    {Rejected(e) : e \in DeviceErrors} \cup
    {Resolved(v) : v \in (CASE op = "getOn" -> BooleanReads
                            [] op = "getBrightness" -> IntegerReads
                            [] OTHER -> StringReads)}

WriteOutcomes == {Rejected(e) : e \in DeviceErrors} \cup {Resolved(Undefined)}

(***************************************************************************)
(* State.                                                                  *)
(***************************************************************************)
VARIABLES
    functions,    \* accessory -> the characteristics its device has functions for
    lightColor,   \* accessory -> _lightColor
    tasks         \* the requests issued so far, in the order they were issued

vars == <<functions, lightColor, tasks>>

ColorOps == {"setHue", "setSaturation"}
SetOps == {"setHue", "setSaturation", "setOn", "setBrightness"}
GetOps == {"getHue", "getSaturation", "getOn", "getBrightness"}

\* events of a task's trace
Read(a, fc) == [ev |-> "read", val |-> [deviceId |-> a, fc |-> fc]]
ReadDone(o) == [ev |-> "readDone", val |-> o]
Write(a, fc, value) == [ev |-> "write", val |-> [deviceId |-> a, fc |-> fc, value |-> value]]
WriteDone(o) == [ev |-> "writeDone", val |-> o]
Mark == [ev |-> "setNotResponding", val |-> Undefined]
Callback(v) == [ev |-> "callback", val |-> v]
Return(v) == [ev |-> "return", val |-> v]
Throw(e) == [ev |-> "throw", val |-> e]

Init ==
    /\ functions \in [Accessories -> Capabilities]
    /\ lightColor = [a \in Accessories |-> [hue |-> Undefined, saturation |-> Undefined]]
    /\ tasks = <<>>

(***************************************************************************)
(* HubspaceAccessory, the base class.                                      *)
(***************************************************************************)
\* supportsCharacteristic
supportsCharacteristic(a, fc) == fc \in functions[a]

FunctionNotFound == Err("Function not found")

\* getFunctionForCharacteristics: the function id, or the error it throws
getFunctionForCharacteristics(a, fc) ==
    IF fc \in functions[a] THEN Resolved(fc) ELSE Rejected(FunctionNotFound)

(***************************************************************************)
(* Pending color state.                                                    *)
(***************************************************************************)
\* a hue that is kept until it is consumed
StoreHueKeepsFirst(lc, value) == IF isNullOrUndefined(lc.hue) THEN [lc EXCEPT !.hue = value] ELSE lc

\* line 129
StoreHue(lc, value) == [lc EXCEPT !.hue = value]

\* line 144
StoreSaturation(lc, value) == [lc EXCEPT !.saturation = value]

\* a test that is satisfied by either field
isColorDefinedEither(lc) == ~isNullOrUndefined(lc.hue) \/ ~isNullOrUndefined(lc.saturation)

isColorDefined(lc) == ~isNullOrUndefined(lc.hue) /\ ~isNullOrUndefined(lc.saturation)

\* a reset that forgets the saturation field
resetColorHueOnly(lc) == [lc EXCEPT !.hue = Undefined]

\* a reset that forgets the hue field
resetColorSaturationOnly(lc) == [lc EXCEPT !.saturation = Undefined]

resetColor(lc) == [hue |-> Undefined, saturation |-> Undefined]

\* one _lightColor for all the instances
AssignColorShared(a, lc) == [b \in Accessories |-> lc]

\* an assignment to this._lightColor: the field belongs to the instance
AssignColor(a, lc) == [lightColor EXCEPT ![a] = lc]

(***************************************************************************)
(* Tasks.  pc is where the handler is suspended: "awaitWrite" in           *)
(* setRgbColor at line 184, "resume" at the await of line 132 or 147 once  *)
(* setRgbColor's promise has settled (settled is the error it rejected     *)
(* with, undefined when it resolved), "awaitSet" at line 160 or 171,       *)
(* "awaitRead" at line 62, 80, 98 or 114, and "done".                      *)
(*                                                                         *)
(* before is _lightColor when the handler was entered and seen is           *)
(* _lightColor when the handler had stored its value, which is what         *)
(* isColorDefined then tests.  overlap tells that another setHue or         *)
(* setSaturation handler of the accessory was suspended at some moment      *)
(* between this handler's entry and its end.                                *)
(***************************************************************************)
Task(a, op, arg, before, seen, pc, trace) ==
    [acc |-> a, op |-> op, arg |-> arg, before |-> before, seen |-> seen, pc |-> pc,
     settled |-> Undefined, overlap |-> FALSE, trace |-> trace]

Tasks == 1..Len(tasks)

\* the hue or saturation handlers of accessory a that have not finished
ColorInFlight(a) == {j \in Tasks : tasks[j].acc = a /\ tasks[j].op \in ColorOps /\ tasks[j].pc # "done"}

\* setRgbColor up to its await: the events it produces and where its caller
\* is left.  A failure before the await is caught at line 187.
setRgbColorBegin(a, hue, saturation) ==
    LET deviceFc == getFunctionForCharacteristics(a, ColorRgb)
        hexValue == HexValue(hue, saturation)
    IN  IF deviceFc.rejected
        THEN [pc |-> "resume", trace |-> <<Callback(AsError(deviceFc.v))>>]
        ELSE IF hexValue.t = "Error"
        THEN [pc |-> "resume", trace |-> <<Callback(AsError(hexValue))>>]
        ELSE [pc |-> "awaitWrite", trace |-> <<Write(a, deviceFc.v, hexValue)>>]

\* setRgbColor from its await on: lines 186 and 188
setRgbColorEnd(o) ==
    IF o.rejected THEN <<Callback(AsError(o.v))>> ELSE <<Callback(Null)>>

\* a catch that rethrows
setRgbColorRethrows(o) == IF o.rejected THEN o.v ELSE Undefined

\* what setRgbColor's promise settles with, given how setValue settled: the
\* catch of line 187 does not rethrow
setRgbColorSettled(o) == Undefined

\* setHue and setSaturation up to their first await
ColorSetBegin(a, op, lc, value) ==
    LET stored == IF op = "setHue" THEN StoreHue(lc, value) ELSE StoreSaturation(lc, value)
        call == setRgbColorBegin(a, stored.hue, stored.saturation)
        task == IF isColorDefined(stored)
                THEN Task(a, op, value, lc, stored, call.pc, call.trace)
                ELSE Task(a, op, value, lc, stored, "done", <<Callback(Null)>>)
        overlap == ColorInFlight(a) # {}
    IN  /\ supportsCharacteristic(a, ColorRgb)
        /\ lightColor' = AssignColor(a, stored)
        /\ tasks' = Append([j \in Tasks |->
                               IF j \in ColorInFlight(a)
                               THEN [tasks[j] EXCEPT !.overlap = TRUE] ELSE tasks[j]],
                           [task EXCEPT !.overlap = overlap])
        /\ UNCHANGED functions

setHue(a, value) == ColorSetBegin(a, "setHue", lightColor[a], value)

setSaturation(a, value) == ColorSetBegin(a, "setSaturation", lightColor[a], value)

\* deviceService.setValue settles for a suspended setRgbColor
ColorWriteSettles(i, o) ==
    /\ tasks[i].pc = "awaitWrite"
    /\ tasks' = [tasks EXCEPT ![i].pc = "resume",
                              ![i].settled = setRgbColorSettled(o),
                              ![i].trace = @ \o <<WriteDone(o)>> \o setRgbColorEnd(o)]
    /\ UNCHANGED <<functions, lightColor>>

\* a handler that reports completion and leaves the pending color as it is
ColorSetEndKeepsColor(lc, settled) == [lc |-> lc, trace |-> <<Callback(Null)>>]

\* setHue and setSaturation after their await: lines 133 to 139
ColorSetEnd(lc, settled) ==
    IF settled = Undefined
    THEN [lc |-> resetColor(lc), trace |-> <<Callback(Null)>>]
    ELSE [lc |-> lc, trace |-> <<Callback(AsError(settled))>>]

ColorSetResumes(i) ==
    LET end == ColorSetEnd(lightColor[tasks[i].acc], tasks[i].settled)
    IN  /\ tasks[i].pc = "resume"
        /\ lightColor' = AssignColor(tasks[i].acc, end.lc)
        /\ tasks' = [tasks EXCEPT ![i].pc = "done", ![i].trace = @ \o end.trace]
        /\ UNCHANGED functions

\* setOn and setBrightness up to their await
PlainSetBegin(a, op, fc, value) ==
    LET deviceFc == getFunctionForCharacteristics(a, fc)
    IN  /\ tasks' = Append(tasks,
                           IF deviceFc.rejected
                           THEN Task(a, op, value, lightColor[a], lightColor[a], "done",
                                     <<Callback(AsError(deviceFc.v))>>)
                           ELSE Task(a, op, value, lightColor[a], lightColor[a], "awaitSet",
                                     <<Write(a, deviceFc.v, value)>>))
        /\ UNCHANGED <<functions, lightColor>>

setOn(a, value) == PlainSetBegin(a, "setOn", Power, value)

setBrightness(a, value) ==
    /\ supportsCharacteristic(a, Brightness)
    /\ PlainSetBegin(a, "setBrightness", Brightness, value)

\* setOn and setBrightness after their await: lines 162 and 164, 173 and 175
PlainSetEnd(o) ==
    IF o.rejected THEN <<Callback(AsError(o.v))>> ELSE <<Callback(Null)>>

\* a handler that clears the pending color when its write has settled
PlainWriteSettlesResetsColor(i, o) ==
    /\ tasks[i].pc = "awaitSet"
    /\ tasks' = [tasks EXCEPT ![i].pc = "done",
                              ![i].trace = @ \o <<WriteDone(o)>> \o PlainSetEnd(o)]
    /\ lightColor' = AssignColor(tasks[i].acc, resetColor(lightColor[tasks[i].acc]))
    /\ UNCHANGED functions

\* deviceService.setValue settles for a suspended setOn or setBrightness
PlainWriteSettles(i, o) ==
    /\ tasks[i].pc = "awaitSet"
    /\ tasks' = [tasks EXCEPT ![i].pc = "done",
                              ![i].trace = @ \o <<WriteDone(o)>> \o PlainSetEnd(o)]
    /\ UNCHANGED <<functions, lightColor>>

\* a catch that surfaces an error of its own
GetCatchUnknown(error) == <<Callback(Err("Unknown error")), Throw(Err("Unknown error"))>>

\* the catch block of every get handler: lines 71 to 74, 89 to 92, 105 to
\* 108, 121 to 124
GetCatch(error) == <<Callback(AsError(error)), Throw(error)>>

\* every get handler up to its await
GetBegin(a, op, fc) ==
    LET deviceFc == getFunctionForCharacteristics(a, fc)
    IN  /\ tasks' = Append(tasks,
                           IF deviceFc.rejected
                           THEN Task(a, op, Undefined, lightColor[a], lightColor[a], "done",
                                     GetCatch(deviceFc.v))
                           ELSE Task(a, op, Undefined, lightColor[a], lightColor[a], "awaitRead",
                                     <<Read(a, deviceFc.v)>>))
        /\ UNCHANGED <<functions, lightColor>>

getHue(a) == supportsCharacteristic(a, ColorRgb) /\ GetBegin(a, "getHue", ColorRgb)

getSaturation(a) == supportsCharacteristic(a, ColorRgb) /\ GetBegin(a, "getSaturation", ColorRgb)

getOn(a) == GetBegin(a, "getOn", Power)

getBrightness(a) == supportsCharacteristic(a, Brightness) /\ GetBegin(a, "getBrightness", Brightness)

\* a test that lets the empty string pass
ColorUnavailableNullish(value) == isNullOrUndefined(value)

\* a test that lets -1 pass
BrightnessUnavailableNullish(value) == isNullOrUndefined(value)

\* the tests of lines 64 and 82, 100, 116
ColorUnavailable(value) == Falsy(value)

OnUnavailable(value) == isNullOrUndefined(value)

BrightnessUnavailable(value) == isNullOrUndefined(value) \/ value = Num(-1)

\* getHue without the call of line 65
getHueEndUnmarked(o) ==
    IF o.rejected THEN GetCatch(o.v)
    ELSE IF ColorUnavailable(o.v) THEN GetCatch(ValueNotAvailable)
    ELSE <<Return(Num(HexHsl(o.v.s)[1]))>>

\* the get handlers after their await, o being how the device read settled
getHueEnd(o) ==
    IF o.rejected THEN GetCatch(o.v)
    ELSE IF ColorUnavailable(o.v) THEN <<Mark>> \o GetCatch(ValueNotAvailable)
    ELSE <<Return(Num(HexHsl(o.v.s)[1]))>>

getSaturationEnd(o) ==
    IF o.rejected THEN GetCatch(o.v)
    ELSE IF ColorUnavailable(o.v) THEN <<Mark>> \o GetCatch(ValueNotAvailable)
    ELSE <<Return(Num(HexHsl(o.v.s)[2]))>>

getOnEnd(o) ==
    IF o.rejected THEN GetCatch(o.v)
    ELSE IF OnUnavailable(o.v) THEN GetCatch(ValueNotAvailable)
    ELSE <<Return(o.v)>>

getBrightnessEnd(o) ==
    IF o.rejected THEN GetCatch(o.v)
    ELSE IF BrightnessUnavailable(o.v) THEN GetCatch(ValueNotAvailable)
    ELSE <<Return(o.v)>>

GetEnd(op, o) ==
    CASE op = "getHue" -> getHueEnd(o)
      [] op = "getSaturation" -> getSaturationEnd(o)
      [] op = "getOn" -> getOnEnd(o)
      [] op = "getBrightness" -> getBrightnessEnd(o)

\* a suspended get handler goes on when its device read has settled as o
GetResumes(i, o) ==
    /\ tasks[i].pc = "awaitRead"
    /\ tasks' = [tasks EXCEPT ![i].pc = "done",
                              ![i].trace = @ \o <<ReadDone(o)>> \o GetEnd(tasks[i].op, o)]
    /\ UNCHANGED <<functions, lightColor>>

\* the device read of a suspended get handler settles
ReadSettles(i, o) == o \in ReadOutcomes(tasks[i].op) /\ GetResumes(i, o)

AllReadOutcomes == UNION {ReadOutcomes(op) : op \in GetOps}

\* the host has issued fewer than limit requests
HostMayRequest(limit) == Len(tasks) < limit

Next ==
    \/ \E a \in Accessories, value \in HueValues : HostMayRequest(MaxRequests) /\ setHue(a, value)
    \/ \E a \in Accessories, value \in SaturationValues : HostMayRequest(MaxRequests) /\ setSaturation(a, value)
    \/ \E a \in Accessories, value \in OnValues : HostMayRequest(MaxRequests) /\ setOn(a, value)
    \/ \E a \in Accessories, value \in BrightnessValues : HostMayRequest(MaxRequests) /\ setBrightness(a, value)
    \/ \E a \in Accessories : HostMayRequest(MaxRequests) /\ getHue(a)
    \/ \E a \in Accessories : HostMayRequest(MaxRequests) /\ getSaturation(a)
    \/ \E a \in Accessories : HostMayRequest(MaxRequests) /\ getOn(a)
    \/ \E a \in Accessories : HostMayRequest(MaxRequests) /\ getBrightness(a)
    \/ \E i \in Tasks, o \in WriteOutcomes : ColorWriteSettles(i, o)
    \/ \E i \in Tasks : ColorSetResumes(i)
    \/ \E i \in Tasks, o \in WriteOutcomes : PlainWriteSettles(i, o)
    \/ \E i \in Tasks, o \in AllReadOutcomes : ReadSettles(i, o)

Spec == Init /\ [][Next]_vars

\* the host issues setHue and setSaturation only
NextColor ==
    \/ \E a \in Accessories, value \in HueValues : HostMayRequest(MaxColorRequests) /\ setHue(a, value)
    \/ \E a \in Accessories, value \in SaturationValues : HostMayRequest(MaxColorRequests) /\ setSaturation(a, value)
    \/ \E i \in Tasks, o \in WriteOutcomes : ColorWriteSettles(i, o)
    \/ \E i \in Tasks : ColorSetResumes(i)

SpecColor == Init /\ [][NextColor]_vars

\* the host issues get requests only
NextGet ==
    \/ \E a \in Accessories : HostMayRequest(MaxGetRequests) /\ getHue(a)
    \/ \E a \in Accessories : HostMayRequest(MaxGetRequests) /\ getSaturation(a)
    \/ \E a \in Accessories : HostMayRequest(MaxGetRequests) /\ getOn(a)
    \/ \E a \in Accessories : HostMayRequest(MaxGetRequests) /\ getBrightness(a)
    \/ \E i \in Tasks, o \in AllReadOutcomes : ReadSettles(i, o)

SpecGet == Init /\ [][NextGet]_vars

(***************************************************************************)
(* Vocabulary of the properties.                                           *)
(***************************************************************************)
NoColor == [hue |-> Undefined, saturation |-> Undefined]

\* a pending field holds a value
IsSet(v) == v.t = "number"

EventsOf(i, ev) == SelectSeq(tasks[i].trace, LAMBDA e : e.ev = ev)

\* the device writes task i issued
WritesOf(i) == EventsOf(i, "write")

ColorTasks(a) == {i \in Tasks : tasks[i].acc = a /\ tasks[i].op \in ColorOps}

\* the positions of the color writes issued for accessory a
ColorWrites(a) ==
    UNION {{<<i, k>> : k \in {n \in 1..Len(tasks[i].trace) :
                                 /\ tasks[i].trace[n].ev = "write"
                                 /\ tasks[i].trace[n].val.fc = ColorRgb}} : i \in ColorTasks(a)}

\* task i ran from its entry to its end with no other setHue or setSaturation
\* handler of its accessory in flight
Alone(i) == tasks[i].op \in ColorOps /\ tasks[i].pc = "done" /\ ~tasks[i].overlap

\* j is the setHue or setSaturation request of the accessory that follows i
Follows(i, j) ==
    /\ i < j
    /\ tasks[i].op \in ColorOps /\ tasks[j].op \in ColorOps
    /\ tasks[i].acc = tasks[j].acc
    /\ \A k \in (i + 1)..(j - 1) : ~(tasks[k].op \in ColorOps /\ tasks[k].acc = tasks[i].acc)

\* the color write of hue h and saturation s on accessory a
ColorWriteOf(a, h, s) == Write(a, ColorRgb, Str(HsvHex(h.n, s.n, 100)))

(***************************************************************************)
(* C1.  On one accessory, under any interleaving of setHue and             *)
(* setSaturation handlers, every accepted hue and every accepted           *)
(* saturation takes part in at most one color write: the color writes      *)
(* issued never outnumber the setHue requests nor the setSaturation        *)
(* requests.                                                               *)
(***************************************************************************)
C1_WritesWithinRequests ==
    \A a \in Accessories :
        /\ Cardinality(ColorWrites(a)) <= Cardinality({i \in ColorTasks(a) : tasks[i].op = "setHue"})
        /\ Cardinality(ColorWrites(a)) <= Cardinality({i \in ColorTasks(a) : tasks[i].op = "setSaturation"})

(***************************************************************************)
(* C2.  Every color write a setHue or setSaturation handler issues carries *)
(* the hue and the saturation that were both set in the pending state the  *)
(* handler tested; a handler that found the other field unset issues no    *)
(* device write.                                                           *)
(***************************************************************************)
C2_NoWriteForIncompletePair ==
    \A i \in Tasks :
        tasks[i].op \in ColorOps =>
            /\ WritesOf(i) # <<>> =>
                  /\ IsSet(tasks[i].seen.hue) /\ IsSet(tasks[i].seen.saturation)
                  /\ WritesOf(i) = <<ColorWriteOf(tasks[i].acc, tasks[i].seen.hue, tasks[i].seen.saturation)>>
            /\ tasks[i].before = NoColor => WritesOf(i) = <<>>

\* a handler that completed a pair has issued its write, another that found
\* nothing pending has issued none
C2_Witness ==
    \E i, j \in Tasks :
        /\ Follows(i, j)
        /\ tasks[i].before = NoColor /\ WritesOf(i) = <<>>
        /\ IsSet(tasks[j].seen.hue) /\ IsSet(tasks[j].seen.saturation)
        /\ Len(WritesOf(j)) = 1

\* the hue and the saturation requested by tasks i and j, one a setHue and
\* the other a setSaturation
HueOf(i, j) == IF tasks[i].op = "setHue" THEN tasks[i].arg ELSE tasks[j].arg
SaturationOf(i, j) == IF tasks[i].op = "setSaturation" THEN tasks[i].arg ELSE tasks[j].arg

(***************************************************************************)
(* C3.  From empty pending state and with no overlapping handlers,         *)
(* setHue(h) then setSaturation(s), or setSaturation(s) then setHue(h),    *)
(* issues exactly one device write: on ColorRgb, with the hex conversion   *)
(* of HSV (h, s, 100).                                                     *)
(***************************************************************************)
C3_PairWritesOnce ==
    \A i, j \in Tasks :
        (/\ Follows(i, j) /\ Alone(i) /\ Alone(j)
         /\ tasks[i].before = NoColor
         /\ tasks[i].op # tasks[j].op)
        => /\ WritesOf(i) = <<>>
           /\ WritesOf(j) = <<ColorWriteOf(tasks[j].acc, HueOf(i, j), SaturationOf(i, j))>>

\* setHue(240) then setSaturation(80) have run and written 3333FF
C3_Witness ==
    \E i, j \in Tasks :
        /\ Follows(i, j) /\ Alone(i) /\ Alone(j)
        /\ tasks[i].before = NoColor
        /\ tasks[i].op = "setHue" /\ tasks[i].arg = Num(240)
        /\ tasks[j].op = "setSaturation" /\ tasks[j].arg = Num(80)
        /\ WritesOf(j) = <<Write(tasks[j].acc, ColorRgb, Str(<<"3", "3", "3", "3", "F", "F">>))>>

\* task i called setRgbColor
Attempted(i) == tasks[i].op \in ColorOps /\ IsSet(tasks[i].seen.hue) /\ IsSet(tasks[i].seen.saturation)

\* the device write of task i failed
WriteFailed(i) == \E n \in 1..Len(tasks[i].trace) :
    tasks[i].trace[n].ev = "writeDone" /\ tasks[i].trace[n].val.rejected

(***************************************************************************)
(* C4.  When a setHue or setSaturation handler that overlapped no other    *)
(* finishes after a combined-write attempt, both pending fields are unset, *)
(* whether the device write succeeded or failed; the next setHue or        *)
(* setSaturation request, run alone, issues no device write.               *)
(***************************************************************************)
C4_ResetAfterAttempt ==
    /\ [][\A i \in Tasks :
            (tasks[i].pc = "resume" /\ tasks'[i].pc = "done" /\ ~tasks'[i].overlap)
            => lightColor'[tasks[i].acc] = NoColor]_vars
    /\ [](\A i, j \in Tasks :
            (Follows(i, j) /\ Alone(i) /\ Alone(j) /\ Attempted(i))
            => tasks[j].before = NoColor /\ WritesOf(j) = <<>>)

\* a combined write failed, and the single request after it wrote nothing
C4_Witness ==
    \E i, j \in Tasks :
        /\ Follows(i, j) /\ Alone(i) /\ Alone(j)
        /\ Attempted(i) /\ WriteFailed(i)
        /\ WritesOf(j) = <<>>

(***************************************************************************)
(* C5.  For every set operation that issues a device write: success is     *)
(* reported to the host only after the write has completed successfully,   *)
(* and when the write fails the operation reports the failure and never    *)
(* reports success for that request.                                       *)
(***************************************************************************)
C5_SuccessOnlyAfterWrite ==
    \A i \in Tasks :
        (tasks[i].op \in SetOps /\ WritesOf(i) # <<>>) =>
            LET trace == tasks[i].trace
            IN  /\ \A n \in 1..Len(trace) :
                      trace[n] = Callback(Null) =>
                          \E m \in 1..(n - 1) : trace[m].ev = "writeDone" /\ ~trace[m].val.rejected
                /\ WriteFailed(i) =>
                      /\ \E n \in 1..Len(trace) : trace[n].ev = "callback" /\ trace[n].val.t = "Error"
                      /\ \A n \in 1..Len(trace) : trace[n] # Callback(Null)

(***************************************************************************)
(* C6.  Overwrite semantics: from empty pending state and with no          *)
(* overlapping handlers, setHue(h1), setHue(h2), setSaturation(s) issue    *)
(* exactly one device write, computed from (h2, s); symmetrically for two  *)
(* saturation sets followed by a hue set.                                  *)
(***************************************************************************)
C6_LatestValueWins ==
    \A i, j, k \in Tasks :
        (/\ Follows(i, j) /\ Follows(j, k)
         /\ Alone(i) /\ Alone(j) /\ Alone(k)
         /\ tasks[i].before = NoColor
         /\ tasks[i].op = tasks[j].op /\ tasks[j].op # tasks[k].op)
        => /\ WritesOf(i) = <<>>
           /\ WritesOf(j) = <<>>
           /\ WritesOf(k) = <<ColorWriteOf(tasks[k].acc, HueOf(j, k), SaturationOf(j, k))>>

\* setHue(0), setHue(240), setSaturation(80) have run and written 3333FF
C6_Witness ==
    \E i, j, k \in Tasks :
        /\ Follows(i, j) /\ Follows(j, k)
        /\ Alone(i) /\ Alone(j) /\ Alone(k)
        /\ tasks[i].before = NoColor
        /\ tasks[i].op = "setHue" /\ tasks[i].arg = Num(0)
        /\ tasks[j].op = "setHue" /\ tasks[j].arg = Num(240)
        /\ tasks[k].op = "setSaturation" /\ tasks[k].arg = Num(80)
        /\ WritesOf(k) = <<Write(tasks[k].acc, ColorRgb, Str(<<"3", "3", "3", "3", "F", "F">>))>>

GetTasks == {i \in Tasks : tasks[i].op \in GetOps}

\* the get handlers whose device read has settled, and how it settled
ReadSettled(i) == i \in GetTasks /\ EventsOf(i, "readDone") # <<>>
ReadOutcome(i) == EventsOf(i, "readDone")[1].val

\* the color strings that mean unavailable
NoColorString == {Str(<<>>), Null, Undefined}

\* the device resolved the read of a getHue or getSaturation with no color
ColorReadUnavailable(i) ==
    /\ ReadSettled(i)
    /\ tasks[i].op \in {"getHue", "getSaturation"}
    /\ ~ReadOutcome(i).rejected /\ ReadOutcome(i).v \in NoColorString

\* the event of a trace surfaces a failure to the host
SurfacesFailure(e) == e.ev = "throw" \/ (e.ev = "callback" /\ e.val.t = "Error")

\* every failure task i surfaced was preceded by setNotResponding
MarkedBeforeFailure(i) ==
    \A n \in 1..Len(tasks[i].trace) :
        SurfacesFailure(tasks[i].trace[n]) => \E m \in 1..(n - 1) : tasks[i].trace[m] = Mark

C8_BrightnessUnavailable ==
    \A i \in Tasks :
        (ReadSettled(i) /\ tasks[i].op = "getBrightness" /\ ~ReadOutcome(i).rejected) =>
            LET value == ReadOutcome(i).v
            IN  IF value \in {Null, Undefined, Num(-1)}
                THEN /\ EventsOf(i, "throw") = <<Throw(ValueNotAvailable)>>
                     /\ EventsOf(i, "callback") = <<Callback(ValueNotAvailable)>>
                     /\ EventsOf(i, "return") = <<>>
                ELSE /\ EventsOf(i, "return") = <<Return(value)>>
                     /\ EventsOf(i, "throw") = <<>>
                     /\ EventsOf(i, "callback") = <<>>

\* one getBrightness read -1 and failed, another read 0 and returned 0
C8_Witness ==
    \E i, j \in Tasks :
        /\ tasks[i].op = "getBrightness" /\ ReadSettled(i)
        /\ ReadOutcome(i) = Resolved(Num(-1))
        /\ EventsOf(i, "throw") = <<Throw(ValueNotAvailable)>>
        /\ tasks[j].op = "getBrightness" /\ ReadSettled(j)
        /\ ReadOutcome(j) = Resolved(Num(0))
        /\ EventsOf(j, "return") = <<Return(Num(0))>>

(***************************************************************************)
(* C9.  When the device read itself fails, each get handler fails with     *)
(* that same error, having issued exactly one device read and returning no *)
(* value.                                                                  *)
(***************************************************************************)
C9_ReadFailurePropagates ==
    \A i \in Tasks :
        (ReadSettled(i) /\ ReadOutcome(i).rejected) =>
            /\ Len(EventsOf(i, "read")) = 1
            /\ EventsOf(i, "throw") = <<Throw(ReadOutcome(i).v)>>
            /\ EventsOf(i, "callback") = <<Callback(ReadOutcome(i).v)>>
            /\ EventsOf(i, "return") = <<>>

\* a getOn and a getHue whose reads failed, with different errors
C9_Witness ==
    \E i, j \in Tasks :
        /\ tasks[i].op = "getOn" /\ ReadSettled(i)
        /\ ReadOutcome(i) = Rejected(Err("timeout"))
        /\ EventsOf(i, "throw") = <<Throw(Err("timeout"))>>
        /\ tasks[j].op = "getHue" /\ ReadSettled(j)
        /\ ReadOutcome(j) = Rejected(Err("ECONNRESET"))
        /\ EventsOf(j, "throw") = <<Throw(Err("ECONNRESET"))>>

(***************************************************************************)
(* C10.  When the device returns an empty or null color string, getHue and *)
(* getSaturation fail with 'Value not available', return no value and call *)
(* setNotResponding exactly once.                                          *)
(***************************************************************************)
C10_EmptyColorFailsOnce ==
    \A i \in Tasks :
        ColorReadUnavailable(i) =>
            /\ EventsOf(i, "throw") = <<Throw(ValueNotAvailable)>>
            /\ EventsOf(i, "return") = <<>>
            /\ Len(EventsOf(i, "setNotResponding")) = 1

\* a getHue that read the empty string and a getSaturation that read null
C10_Witness ==
    \E i, j \in Tasks :
        /\ tasks[i].op = "getHue" /\ ColorReadUnavailable(i)
        /\ ReadOutcome(i).v = Str(<<>>)
        /\ tasks[j].op = "getSaturation" /\ ColorReadUnavailable(j)
        /\ ReadOutcome(j).v = Null
        /\ Len(EventsOf(i, "setNotResponding")) = 1 /\ Len(EventsOf(j, "setNotResponding")) = 1

\* task i is the one that took the step: it was entered, or it went on
Moved(i) == i > Len(tasks) \/ tasks'[i].pc # tasks[i].pc

(***************************************************************************)
(* C11.  Pending color state is per accessory: a step of a handler of one  *)
(* accessory leaves the pending hue and saturation of every other          *)
(* accessory unchanged, and a setHue on one accessory followed by a        *)
(* setSaturation on another, both entered with empty pending state, issue  *)
(* no device write.                                                        *)
(***************************************************************************)
C11_PendingPerAccessory ==
    /\ [][\A b \in Accessories :
            (\A i \in 1..Len(tasks') : Moved(i) => tasks'[i].acc # b)
            => lightColor'[b] = lightColor[b]]_vars
    /\ [](\A i, j \in Tasks :
            (/\ i < j
             /\ tasks[i].op = "setHue" /\ tasks[j].op = "setSaturation"
             /\ tasks[i].acc # tasks[j].acc
             /\ tasks[i].before = NoColor /\ tasks[j].before = NoColor)
            => WritesOf(i) = <<>> /\ WritesOf(j) = <<>>)

\* setHue(240) on A and setSaturation(80) on B have run: each accessory holds
\* its own field and nothing was written
C11_Witness ==
    \E i, j \in Tasks :
        /\ i < j
        /\ tasks[i].op = "setHue" /\ tasks[i].acc = "A" /\ tasks[i].pc = "done"
        /\ tasks[j].op = "setSaturation" /\ tasks[j].acc = "B" /\ tasks[j].pc = "done"
        /\ lightColor["A"] = [hue |-> Num(240), saturation |-> Undefined]
        /\ lightColor["B"] = [hue |-> Undefined, saturation |-> Num(80)]
        /\ WritesOf(i) = <<>> /\ WritesOf(j) = <<>>

\* j is the last setHue or setSaturation request of its accessory
LastColorTask(j) == \A k \in Tasks : ~Follows(j, k)

\* the value of a device write names the same color as the string c
SameColor(value, c) == value.t = "string" /\ HexRgb(value.s) = HexRgb(c)

\* setHue(240) then setSaturation(80), entered from empty pending state, with
\* no overlapping handler and no request after them
Scenario240_80(i, j) ==
    /\ Follows(i, j) /\ Alone(i) /\ Alone(j) /\ LastColorTask(j)
    /\ tasks[i].before = NoColor
    /\ tasks[i].op = "setHue" /\ tasks[i].arg = Num(240)
    /\ tasks[j].op = "setSaturation" /\ tasks[j].arg = Num(80)

\* the two handlers issued one device write, of a color equal to c, and left
\* the pending state empty
OneWriteOf(i, j, c) ==
    /\ WritesOf(i) = <<>>
    /\ Len(WritesOf(j)) = 1
    /\ WritesOf(j)[1].val.fc = ColorRgb
    /\ SameColor(WritesOf(j)[1].val.value, c)
    /\ lightColor[tasks[j].acc] = NoColor

(***************************************************************************)
(* C12, as claimed.  From empty pending state, setHue(240) then            *)
(* setSaturation(80) issue exactly one setValue call, whose value is a hex *)
(* color equivalent to #0014cc, and the pending state is empty afterward.  *)
(***************************************************************************)
C12_Writes0014cc ==
    \A i, j \in Tasks :
        Scenario240_80(i, j) => OneWriteOf(i, j, <<"#", "0", "0", "1", "4", "c", "c">>)

(***************************************************************************)
(* C12, amended.  From empty pending state, setHue(240) then               *)
(* setSaturation(80) issue exactly one setValue call, whose value is a hex *)
(* color equivalent to #3333ff, the conversion of hue 240, saturation 80   *)
(* at full value, and the pending state is empty afterward.                *)
(***************************************************************************)
C12_Writes3333ff ==
    \A i, j \in Tasks :
        Scenario240_80(i, j) => OneWriteOf(i, j, <<"#", "3", "3", "3", "3", "f", "f">>)

\* the scenario has run and its write succeeded
C12_Witness ==
    \E i, j \in Tasks :
        /\ Scenario240_80(i, j)
        /\ ~WriteFailed(j)
        /\ WritesOf(j) = <<Write(tasks[j].acc, ColorRgb, Str(<<"3", "3", "3", "3", "F", "F">>))>>

(***************************************************************************)
(* The round trip of a color through the handlers.  The host reads the hue *)
(* and the saturation of an accessory, sets the values it read, and reads  *)
(* again, one request at a time.  The device keeps its color: a read       *)
(* returns the color last written with success, and before any write the   *)
(* color the device had at first, which is any of RoundTripColors.         *)
(***************************************************************************)
MaxRoundTripRequests == 5

RoundTripAccessory == "A"

RoundTripChannels == {0, 51, 255}

RoundTripColors ==
    {RgbHex(<<r, g, b>>) : r \in RoundTripChannels, g \in RoundTripChannels, b \in RoundTripChannels}
    \cup {RgbHex(<<52, 51, 50>>), RgbHex(<<110, 111, 111>>), RgbHex(<<20, 25, 30>>),
          RgbHex(<<25, 30, 35>>), RgbHex(<<255, 0, 1>>), <<"#", "0", "0", "1", "4", "c", "c">>}

\* no handler is suspended
Quiet == \A i \in Tasks : tasks[i].pc = "done"

\* the tasks of accessory a whose color write succeeded, and those whose
\* color read was answered
ColorWritten(a) ==
    {i \in ColorTasks(a) : \E n \in 1..Len(tasks[i].trace) :
        tasks[i].trace[n].ev = "writeDone" /\ ~tasks[i].trace[n].val.rejected}
ColorAnswered(a) ==
    {i \in Tasks : /\ tasks[i].acc = a /\ tasks[i].op \in {"getHue", "getSaturation"}
                   /\ ReadSettled(i) /\ ~ReadOutcome(i).rejected}

Latest(S) == CHOOSE i \in S : \A j \in S : j <= i
Earliest(S) == CHOOSE i \in S : \A j \in S : i <= j

\* the colors the device of accessory a may answer a read with
DeviceColor(a) ==
    IF ColorWritten(a) # {} THEN {WritesOf(Latest(ColorWritten(a)))[1].val.value}
    ELSE IF ColorAnswered(a) # {} THEN {ReadOutcome(Earliest(ColorAnswered(a))).v}
    ELSE {Str(c) : c \in RoundTripColors}

\* what the get handlers of kind op returned for accessory a
ReadBack(a, op) ==
    {EventsOf(i, "return")[1].val :
        i \in {j \in Tasks : tasks[j].acc = a /\ tasks[j].op = op /\ EventsOf(j, "return") # <<>>}}

HostMayGoOn == Quiet /\ HostMayRequest(MaxRoundTripRequests)

NextRoundTrip ==
    \/ HostMayGoOn /\ getHue(RoundTripAccessory)
    \/ HostMayGoOn /\ getSaturation(RoundTripAccessory)
    \/ \E value \in ReadBack(RoundTripAccessory, "getHue") :
          HostMayGoOn /\ setHue(RoundTripAccessory, value)
    \/ \E value \in ReadBack(RoundTripAccessory, "getSaturation") :
          HostMayGoOn /\ setSaturation(RoundTripAccessory, value)
    \/ \E i \in Tasks, c \in DeviceColor(RoundTripAccessory) : GetResumes(i, Resolved(c))
    \/ \E i \in Tasks : ColorWriteSettles(i, Resolved(Undefined))
    \/ \E i \in Tasks : ColorSetResumes(i)

SpecRoundTrip == Init /\ [][NextRoundTrip]_vars

\* the distance of two hues on the color circle, in degrees
HueDistance(h1, h2) == Min2((h1 - h2) % 360, (h2 - h1) % 360)

Returned(i) == EventsOf(i, "return")[1].val

\* the get handlers of kind op that returned a value
Answered(op) == {i \in Tasks : tasks[i].op = op /\ EventsOf(i, "return") # <<>>}

\* the hue and saturation handlers that issued a write
Writers == {i \in Tasks : tasks[i].op \in ColorOps /\ WritesOf(i) # <<>>}

\* the round trips: g1 and g2 derived a hue and a saturation from one color,
\* w wrote the color converted from them, and g3 derived a hue from the
\* color written
RoundTrips ==
    {t \in Answered("getHue") \X Answered("getSaturation") \X Writers \X Answered("getHue") :
        /\ ReadOutcome(t[1]) = ReadOutcome(t[2])
        /\ tasks[t[3]].seen = [hue |-> Returned(t[1]), saturation |-> Returned(t[2])]
        /\ t[4] > t[3]
        /\ ReadOutcome(t[4]).v = WritesOf(t[3])[1].val.value}

\* the hue and the saturation read, and the hue derived after the write
HueRead(t) == Returned(t[1]).n
SaturationRead(t) == Returned(t[2]).n
HueDerived(t) == Returned(t[4]).n

C14_CallbackOnce ==
    \A i \in Tasks : tasks[i].op \in SetOps =>
        /\ Len(EventsOf(i, "callback")) <= 1
        /\ tasks[i].pc = "done" => Len(EventsOf(i, "callback")) = 1

(***************************************************************************)
(* Longer interleavings of the hue and saturation handlers: two handlers   *)
(* suspended in their writes and a request after the first has finished    *)
(* take four requests.                                                     *)
(***************************************************************************)
MaxInterleavedRequests == 4

NextInterleaved ==
    \/ \E a \in Accessories, value \in HueValues :
          HostMayRequest(MaxInterleavedRequests) /\ setHue(a, value)
    \/ \E a \in Accessories, value \in SaturationValues :
          HostMayRequest(MaxInterleavedRequests) /\ setSaturation(a, value)
    \/ \E i \in Tasks, o \in WriteOutcomes : ColorWriteSettles(i, o)
    \/ \E i \in Tasks : ColorSetResumes(i)

SpecInterleaved == Init /\ [][NextInterleaved]_vars

\* the pending field a setHue or setSaturation handler stores its value in
FieldOf(j) == IF tasks[j].op = "setHue" THEN "hue" ELSE "saturation"

(***************************************************************************)
(* C15.  No lost update: the value of the last setHue or setSaturation     *)
(* request of an accessory, when that request did not complete the pair,   *)
(* is neither overwritten nor written by a later request, so it is still   *)
(* pending; the resetColor of a handler whose write was issued before the  *)
(* value was set does not erase it.                                        *)
(***************************************************************************)
C15_NoLostUpdate ==
    \A j \in Tasks :
        (tasks[j].op \in ColorOps /\ LastColorTask(j) /\ ~Attempted(j))
        => lightColor[tasks[j].acc][FieldOf(j)] = tasks[j].arg

(***************************************************************************)
(* C16.  In every reachable state in which no setHue or setSaturation      *)
(* handler of an accessory is suspended at the await of its color write,   *)
(* the pending state of that accessory is not complete: a complete pair    *)
(* exists only while a write for it is in progress.                        *)
(***************************************************************************)
C16_CompleteOnlyDuringWrite ==
    \A a \in Accessories : ColorInFlight(a) = {} => ~isColorDefined(lightColor[a])

\* a handler of an accessory has written and finished, and a later request
\* has left a value pending
C16_Witness ==
    \E a \in Accessories : \E i \in ColorTasks(a), k \in ColorTasks(a) :
        /\ ColorInFlight(a) = {}
        /\ i < k
        /\ WritesOf(i) # <<>> /\ WritesOf(k) = <<>>
        /\ IsSet(lightColor[a][FieldOf(k)]) /\ ~isColorDefined(lightColor[a])

\* what a setHue or setSaturation handler found pending and what it wrote
\* follow from the hue and saturation handlers of its accessory alone
ColorPathOwnsPending(i) ==
    /\ (\A j \in Tasks : ~Follows(j, i)) => tasks[i].before = NoColor
    /\ \A j \in Tasks : Follows(j, i) =>
          /\ tasks[i].before.hue \in {Undefined, tasks[j].seen.hue}
          /\ tasks[i].before.saturation \in {Undefined, tasks[j].seen.saturation}
    /\ WritesOf(i) = IF Attempted(i)
                     THEN <<ColorWriteOf(tasks[i].acc, tasks[i].seen.hue, tasks[i].seen.saturation)>>
                     ELSE <<>>

(***************************************************************************)
(* C17.  Every step of a setOn, setBrightness, getOn, getBrightness,       *)
(* getHue or getSaturation handler, on its success and on its failure      *)
(* paths, leaves the pending hue and saturation of every accessory         *)
(* unchanged; so whether a setHue or setSaturation handler issues the      *)
(* combined write, and with what values, follows from the hue and          *)
(* saturation requests of its accessory alone.                             *)
(***************************************************************************)
C17_OthersLeavePending ==
    /\ [][(\E i \in 1..Len(tasks') : Moved(i) /\ tasks'[i].op \notin ColorOps)
            => lightColor' = lightColor]_vars
    /\ [](\A i \in Tasks : tasks[i].op \in ColorOps => ColorPathOwnsPending(i))

\* a hue or saturation is pending, and a later handler of another kind on the
\* same accessory has finished with a failure and left it pending
C17_Witness ==
    \E i \in Tasks, j \in Tasks :
        /\ i < j /\ tasks[i].acc = tasks[j].acc
        /\ tasks[i].op \in ColorOps /\ tasks[j].op \notin ColorOps
        /\ tasks[j].pc = "done" /\ Len(tasks[j].trace) > 1
        /\ \E n \in 1..Len(tasks[j].trace) : SurfacesFailure(tasks[j].trace[n])
        /\ lightColor[tasks[i].acc][FieldOf(i)] = tasks[i].arg
        /\ tasks[j].before = lightColor[tasks[i].acc]

(***************************************************************************)
(* The set handlers under fair scheduling.  Every call of the device       *)
(* service eventually resolves or rejects, and the event loop eventually   *)
(* runs the continuation of a handler whose await has settled.             *)
(***************************************************************************)
MaxLiveRequests == 2

NextLive ==
    \/ \E a \in Accessories, value \in HueValues : HostMayRequest(MaxLiveRequests) /\ setHue(a, value)
    \/ \E a \in Accessories, value \in SaturationValues : HostMayRequest(MaxLiveRequests) /\ setSaturation(a, value)
    \/ \E a \in Accessories, value \in OnValues : HostMayRequest(MaxLiveRequests) /\ setOn(a, value)
    \/ \E a \in Accessories, value \in BrightnessValues : HostMayRequest(MaxLiveRequests) /\ setBrightness(a, value)
    \/ \E i \in Tasks, o \in WriteOutcomes : ColorWriteSettles(i, o)
    \/ \E i \in Tasks : ColorSetResumes(i)
    \/ \E i \in Tasks, o \in WriteOutcomes : PlainWriteSettles(i, o)

DeviceCallsReturn ==
    \A i \in 1..MaxLiveRequests :
        /\ WF_vars(i \in Tasks /\ \E o \in WriteOutcomes : ColorWriteSettles(i, o))
        /\ WF_vars(i \in Tasks /\ \E o \in WriteOutcomes : PlainWriteSettles(i, o))

ContinuationsRun ==
    \A i \in 1..MaxLiveRequests : WF_vars(i \in Tasks /\ ColorSetResumes(i))

SpecLive == Init /\ [][NextLive]_vars /\ DeviceCallsReturn /\ ContinuationsRun

\* a handler of accessory a has issued the color write of hue h and
\* saturation s
PairWritten(a, h, s) == \E i \in ColorTasks(a) : WritesOf(i) = <<ColorWriteOf(a, h, s)>>

\* the set handler of request i has reported completion and finished
Completed(i) ==
    /\ i \in Tasks /\ tasks[i].pc = "done"
    /\ EventsOf(i, "callback") # <<>>

(***************************************************************************)
(* C18.  Provided every device call eventually returns or fails: whenever  *)
(* the pending state of an accessory becomes complete, the color write of  *)
(* the pending pair is issued and the pending state eventually becomes     *)
(* empty again, and every set handler eventually reports completion.       *)
(***************************************************************************)
C18_CompletePairWrittenAndCleared ==
    /\ \A a \in Accessories, h \in HueValues, s \in SaturationValues :
          (lightColor[a] = [hue |-> h, saturation |-> s])
              ~> (PairWritten(a, h, s) /\ lightColor[a] = NoColor)
    /\ \A i \in 1..MaxLiveRequests :
          (i \in Tasks /\ tasks[i].op \in SetOps) ~> Completed(i)

\* a handler completed the pair, its write failed, the pending state is
\* empty again and every handler has reported completion
C18_Witness ==
    \E i \in Tasks :
        /\ Attempted(i) /\ WriteFailed(i)
        /\ lightColor[tasks[i].acc] = NoColor
        /\ \A j \in Tasks : Completed(j)

====
